---------------------------- MODULE Spec2Model ----------------------------
(***************************************************************************)
(* A model of rename_by_content.py (RBC): the date and title inference     *)
(* heuristics.  Python values are modelled as follows.                     *)
(*   - a datetime is a record [year, month, day] (times of day are never   *)
(*     read by the program);                                               *)
(*   - Python's None is the record None;                                   *)
(*   - a text line is the record of what each re.search of                 *)
(*     date_from_string captures in it, together with what the dateparser  *)
(*     library answers for the captured text (the library is a black box:  *)
(*     any datetime, or nothing);                                          *)
(*   - a call either returns a value or raises (status "raise");           *)
(*   - a file name is the sequence of its characters, a title the sequence *)
(*     of the fragments joined to make it;                                 *)
(*   - the file system is the set of cache directories that exist and the  *)
(*     set of text renditions stored in them.                              *)
(***************************************************************************)
EXTENDS Integers, Sequences, FiniteSets, TLC

VARIABLES
    MAX_DATE,   \* the global reference date (today, or an operator ceiling)
    pc,         \* position of the call under study: "call", then "done"
                \* ("once" and "twice" for a function applied twice; "idle"
                \* for a program whose calls follow one another)
    result,     \* what the call under study gave
    line,       \* argument of date_from_string
    textfile,   \* argument of date_from_txt and title_from_txt: a text
                \* file, or None when there is no such file
    scan,       \* what the loop over the lines of textfile went through:
                \* date_from_txt's candidates and the number of lines it
                \* scanned, title_from_txt's first pass
    extension,  \* find_date: the normalized type of the file
    tags,       \* find_date: what get_tag answers for each tag of the file
    title,      \* find_date: the composed title, as a line
    trace,      \* find_date: what it returned and what it consulted
    OCR_DIR,    \* the global OCR_DIR: None, or the path of a directory
    CUSTOM_OCR_DIR, \* the global CUSTOM_OCR_DIR
    dirs,       \* the file system: the cache directories that exist
    cache,      \* the file system: the text renditions stored in them
    made,       \* history: the directories tempfile.mkdtemp created
    removed,    \* history: the directories clear_ocr deleted
    flist,      \* batch: its argument
    remaining,  \* batch: the local list of that name
    created,    \* batch: the local list of that name
    not_treated,\* batch: the local list of that name
    used,       \* history: for each file renamed, the file whose text
                \* rendition was read for it
    ncalls,     \* number of calls made to the engine
    sarg,       \* argument s of get_valid_filename
    convert_accent, \* argument of get_valid_filename
    filename,   \* find_title: the path of the file
    text_title, \* find_title: what title_from_txt gives for the file
    dry,        \* batch: its argument dry
    keep,       \* batch: its argument keep
    outdir,     \* the file system: the paths that exist under newdir
    copies      \* history: for each file renamed, the path asked for, the
                \* path make_unique_path chose, the number of paths it
                \* tested, the number of paths that existed, and whether
                \* the path chosen existed when the file was copied to it

\* the globals, the file system and the locals of batch
engine == <<OCR_DIR, CUSTOM_OCR_DIR, dirs, cache, made, removed, flist,
            remaining, created, not_treated, used, ncalls>>

\* the output directory of batch
output == <<dry, keep, outdir, copies>>

vars == <<MAX_DATE, pc, result, line, textfile, scan, extension, tags, title,
          trace, engine, sarg, convert_accent, filename, text_title, output>>

\* what a call reads without changing it
inputs == <<MAX_DATE, line, textfile, extension, tags, title, sarg,
            convert_accent, filename, text_title>>

-----------------------------------------------------------------------------
(* Global variables of the program *)

MIN_YEAR == 1900

None == [none |-> TRUE]

Date(y, m, d) == [year |-> y, month |-> m, day |-> d]

\* The reference dates explored: the ceiling suggested in the source
\* (2018-11-30) and a "today" in the middle of a month of a leap year.
MaxDates == { Date(2018, 11, 30), Date(2024, 2, 15) }

-----------------------------------------------------------------------------
(* datetime.datetime(year, month, day) *)

IsLeap(y) == (y % 4 = 0 /\ y % 100 # 0) \/ y % 400 = 0

DaysInMonth(y, m) ==
    IF m = 2 THEN (IF IsLeap(y) THEN 29 ELSE 28)
    ELSE IF m \in {4, 6, 9, 11} THEN 30 ELSE 31

\* TRUE when the constructor accepts the fields; it raises ValueError otherwise
datetime_ok(y, m, d) ==
    /\ y >= 1 /\ y <= 9999
    /\ m >= 1 /\ m <= 12
    /\ d >= 1 /\ d <= DaysInMonth(y, m)

-----------------------------------------------------------------------------
(* Comparison and reduction of dates *)

\* (mutant) a date of the same (year, month) does not replace the current one
compare_dates_strict(d1, d2) ==
    d1.year < d2.year \/ (d1.year = d2.year /\ d1.month < d2.month)

compare_dates(d1, d2) ==
    d1.year < d2.year \/ (d1.year = d2.year /\ d1.month <= d2.month)

RECURSIVE max_dates_from(_, _)
max_dates_from(m, dates) ==
    IF dates = <<>> THEN m
    ELSE max_dates_from(IF compare_dates(m, Head(dates)) THEN Head(dates) ELSE m,
                        Tail(dates))

max_dates(dates) ==
    LET m == max_dates_from(Date(1, 1, 1), dates)
    IN  IF m.year = 1 THEN None ELSE m

-----------------------------------------------------------------------------
(* The dateparser library, wrapped *)

\* dateparser.parse answered raw (None when it found nothing or raised);
\* only the (year, month) not after max is kept.
dateparser_parse(raw, max) ==
    IF raw # None /\ compare_dates(raw, max) THEN raw ELSE None

\* One hit (string, d) of dateparser.search.search_dates: d, and the two tests
\* the code makes on the string: has2 is str(d.year % 100) in string, has4 is
\* str(d.year) in string.
Hit(d, has2, has4) == [d |-> d, has2 |-> has2, has4 |-> has4]

\* the year the code assumes for a hit
search_year(h, max) ==
    IF ~h.has4 /\ h.d.year > max.year + 1 THEN h.d.year - 100 ELSE h.d.year

\* the test that lets a hit into valid_dates
search_keeps(d, max) == compare_dates(d, max) /\ d.year >= MIN_YEAR

\* hits is the library's answer (<<>> when it is None or when it raised).
\* Subtracting 100 years keeps a 29th of February valid for every year the
\* library gives in 1900..2399, so datetime() does not raise here.
RECURSIVE dateparser_search(_, _)
dateparser_search(hits, max) ==
    IF hits = <<>> THEN <<>>
    ELSE LET h == Head(hits)
             d == Date(search_year(h, max), h.d.month, h.d.day)
             rest == dateparser_search(Tail(hits), max)
         IN  IF h.has2 /\ search_keeps(d, max) THEN <<d>> \o rest ELSE rest

-----------------------------------------------------------------------------
(* Numeric dates *)

\* (mutant) every 2-digit year is read in the 21st century
complete_year_2000(year, max) == IF year < 100 THEN year + 2000 ELSE year

complete_year(year, max) ==
    IF year < 100
    THEN (IF year <= max.year % 100 THEN year + 2000 ELSE year + 1900)
    ELSE year

validate_date(day, month, year, max) ==
    /\ year <= max.year
    /\ year >= MIN_YEAR
    /\ day >= 1 /\ day <= 31
    /\ month >= 1 /\ month <= 12

-----------------------------------------------------------------------------
(* Text lines.  A line is the record of the regular-expression matches     *)
(* date_from_string looks for (None: re.search found nothing):             *)
(*   le        ", le <date> <4-digit year>": y4 is the year token captured, *)
(*             raw what dateparser.parse answers for the captured text;    *)
(*   date4     "Date: <date> <4-digit year>": the same;                    *)
(*   datelabel "Date:": hits is what search_dates answers for the rest of  *)
(*             the line;                                                   *)
(*   num       D sep M sep Y: the three numbers captured;                  *)
(*   mon       [D] month-name Y: hasday is group(1) # "", year the number  *)
(*             captured as the year, raw what dateparser.parse answers for *)
(*             the match;                                                  *)
(*   compact   _YYYYMMDD_: the three numbers captured;                     *)
(*   extra     the other 4-digit tokens 19xx/20xx of the line;             *)
(*   words     the number of word characters (\w) of the cleaned line,     *)
(*             which only title_from_txt reads.                            *)
(***************************************************************************)

Line(le, date4, datelabel, num, mon, compact, extra, words) ==
    [le |-> le, date4 |-> date4, datelabel |-> datelabel, num |-> num,
     mon |-> mon, compact |-> compact, extra |-> extra, words |-> words]

IsYearToken(n) == n \div 100 = 19 \/ n \div 100 = 20

\* re.findall(r'\b((19|20)\d{2})\b', line): every 4-digit token of the line,
\* those captured by the other patterns included.
year_tokens(l) ==
    (IF l.le # None THEN <<l.le.y4>> ELSE <<>>)
    \o (IF l.date4 # None THEN <<l.date4.y4>> ELSE <<>>)
    \o (IF l.num # None /\ IsYearToken(l.num.day) THEN <<l.num.day>> ELSE <<>>)
    \o (IF l.num # None /\ IsYearToken(l.num.year) THEN <<l.num.year>> ELSE <<>>)
    \o (IF l.mon # None /\ IsYearToken(l.mon.year) THEN <<l.mon.year>> ELSE <<>>)
    \o l.extra

RECURSIVE SeqMax(_)
SeqMax(s) ==
    IF Len(s) = 1 THEN s[1]
    ELSE LET m == SeqMax(Tail(s)) IN IF s[1] >= m THEN s[1] ELSE m

\* (mutant) no upper bound on the year
year_in_range_open(y, max) == y >= MIN_YEAR

year_in_range(y, max) == y <= max.year /\ y >= MIN_YEAR

find_year(l, max) ==
    LET years == SelectSeq(year_tokens(l), LAMBDA y : year_in_range(y, max))
    IN  IF years # <<>> THEN Date(SeqMax(years), 1, 1) ELSE None

-----------------------------------------------------------------------------
(* date_from_string: the cascade of patterns.  Each pattern gives None     *)
(* (the code goes on to the next pattern), a returned (d, score), or the   *)
(* exception it lets escape.                                               *)

Return(d, score) == [status |-> "return", d |-> d, score |-> score]

Raise == [status |-> "raise", d |-> None, score |-> 0]

\* "Rennes, le 3 janvier 2018"
place_le(l, max) ==
    IF l.le = None THEN None
    ELSE LET d == dateparser_parse(l.le.raw, max)
         IN  IF d # None THEN Return(d, 30) ELSE None

\* "Date: 3 novembre 2018. Signe: moi"
date_label4(l, max) ==
    IF l.date4 = None THEN None
    ELSE LET d == dateparser_parse(l.date4.raw, max)
         IN  IF d # None THEN Return(d, 30) ELSE None

\* "Date: 3/11/18 mais ca s'arrete"
date_label_search(l, max) ==
    IF l.datelabel = None THEN None
    ELSE LET d == dateparser_search(l.datelabel.hits, max)
         IN  IF d # <<>> THEN Return(d[1], 5) ELSE None

\* (mutant) the fields are never swapped
swap_never(day, year) == [day |-> day, year |-> year]

\* the swap of line 372-373: the fields (day, year) after it
swap_day_year(day, year) ==
    IF day \div 100 = 19 \/ day \div 100 = 20
    THEN [day |-> year, year |-> day]
    ELSE [day |-> day, year |-> year]

\* "Le 03/12/18" (but also "2001/1/23")
numeric(l, max) ==
    IF l.num = None THEN None
    ELSE LET f == swap_day_year(l.num.day, l.num.year)
             day == f.day
             month == l.num.month
             year == complete_year(f.year, max)
         IN  IF validate_date(day, month, year, max)
             THEN IF ~datetime_ok(year, month, day) THEN Raise
                  ELSE IF compare_dates(Date(year, month, day), max)
                       THEN Return(Date(year, month, day), 10)
                       ELSE None
             ELSE None

\* "VIE UNIVERSITAIRE MERCREDI 18 FEVRIER 1998"
month_name(l, max) ==
    IF l.mon = None THEN None
    ELSE LET d == dateparser_parse(l.mon.raw, max)
         IN  IF d # None THEN Return(d, IF l.mon.hasday THEN 10 ELSE 5)
             ELSE None

\* "Screenshot_20230504_164636.png"
compact(l, max) ==
    IF l.compact = None THEN None
    ELSE LET day == l.compact.day
             month == l.compact.month
             year == l.compact.year
         IN  IF validate_date(day, month, year, max)
             THEN IF ~datetime_ok(year, month, day) THEN Raise
                  ELSE IF compare_dates(Date(year, month, day), max)
                       THEN Return(Date(year, month, day), 5)
                       ELSE None
             ELSE None

\* "Reunion de 2018-2019"
bare_year(l, max) ==
    IF year_tokens(l) = <<>> THEN None
    ELSE LET y == find_year(l, max)
         IN  IF y # None THEN Return(y, 2) ELSE None

\* (mutant) the bare year is tried before the compact date
patterns_year_early(l, max) ==
    << place_le(l, max), date_label4(l, max), date_label_search(l, max),
       numeric(l, max), month_name(l, max), bare_year(l, max),
       compact(l, max) >>

\* the patterns in the order of the code
patterns(l, max) ==
    << place_le(l, max), date_label4(l, max), date_label_search(l, max),
       numeric(l, max), month_name(l, max), compact(l, max),
       bare_year(l, max) >>

RECURSIVE first_result(_)
first_result(ps) ==
    IF ps = <<>> THEN Return(None, 0)
    ELSE IF Head(ps) # None THEN Head(ps)
    ELSE first_result(Tail(ps))

date_from_string(l, max) == first_result(patterns(l, max))

-----------------------------------------------------------------------------
(* The lines explored.  Each feature of a line ranges over a "full" set of *)
(* captures in the lines that study it and over a "small" set (no match,   *)
(* or one match that yields a date under every reference date) elsewhere.  *)

\* what dateparser.parse may answer: nothing, or a datetime
RawDates ==
    { Date(1850, 3, 18), Date(2001, 1, 3), Date(2018, 11, 30),
      Date(2024, 2, 20), Date(2036, 3, 3) }

RawAnswers == RawDates \cup {None}

\* the text captured for the two phrases ends at its first token 19xx/20xx
\* (y4): the library reads that year, or finds nothing
PhraseFull ==
    {None} \cup { p \in [y4 : {2001, 2018, 2024, 2036}, raw : RawAnswers] :
                     p.raw # None => p.raw.year = p.y4 }
PhraseSmall == {None, [y4 |-> 2001, raw |-> Date(2001, 1, 3)]}

HitSet ==
    { Hit(Date(2001, 1, 3), TRUE, TRUE), Hit(Date(2117, 9, 21), TRUE, FALSE),
      Hit(Date(2036, 1, 3), FALSE, FALSE), Hit(Date(1850, 3, 18), TRUE, TRUE),
      Hit(Date(2024, 2, 20), TRUE, TRUE) }

LabelFull ==
    {None} \cup { [hits |-> h] : h \in {<<>>} \cup { <<a>> : a \in HitSet }
                                     \cup { <<a, b>> : a \in HitSet, b \in HitSet } }
LabelSmall == {None, [hits |-> <<Hit(Date(2001, 1, 3), TRUE, TRUE)>>]}

\* \d{1,4}, \d{1,2} and (\d{2} | (19|20)\d{2})
NumDays == {0, 1, 20, 23, 29, 31, 32, 2001, 2024}
NumMonths == {0, 1, 2, 11, 12, 13}
NumYears == {0, 18, 19, 23, 24, 25, 99, 1900, 2018, 2024, 2025}

NumFull == {None} \cup [day : NumDays, month : NumMonths, year : NumYears]
NumSmall == {None, [day |-> 23, month |-> 1, year |-> 2001]}

\* "18 fevrier 2001", "mars 18", ... and "1850 mars 18", where (\d*) captures
\* 1850 and the library reads it as the year
MonFull ==
    {None} \cup { m \in [hasday : BOOLEAN, year : {18, 2001}, raw : RawAnswers] :
                     (m.raw # None /\ m.raw.year < 1900) => (m.hasday /\ m.year = 18) }
MonSmall == {None, [hasday |-> TRUE, year |-> 2001, raw |-> Date(2001, 1, 3)]}

\* (19|20)\d{2}, \d{2}, \d{2}
CompactFull ==
    {None} \cup [year : {1900, 2018, 2023, 2024, 2025},
                 month : {0, 2, 5, 12, 13}, day : {0, 4, 20, 29, 31, 32}]
CompactSmall == {None, [year |-> 2001, month |-> 1, day |-> 23]}

ExtraFull ==
    { <<>>, <<2001>>, <<2018, 2019>>, <<2019, 2018>>, <<2030>>,
      <<1999, 2025>>, <<2024>> }
ExtraSmall == {<<>>, <<2001>>}

Features == 1..7

\* a "Date: <date> <year>" match contains a "Date:" match
IsLine(l) == l.date4 # None => l.datelabel # None

LinesOn(f) ==
    { l \in [le : IF f = 1 THEN PhraseFull ELSE PhraseSmall,
             date4 : IF f = 2 THEN PhraseFull ELSE PhraseSmall,
             datelabel : IF f = 3 THEN LabelFull ELSE LabelSmall,
             num : IF f = 4 THEN NumFull ELSE NumSmall,
             mon : IF f = 5 THEN MonFull ELSE MonSmall,
             compact : IF f = 6 THEN CompactFull ELSE CompactSmall,
             extra : IF f = 7 THEN ExtraFull ELSE ExtraSmall,
             words : {20}] : IsLine(l) }

Lines == UNION { LinesOn(f) : f \in Features }

-----------------------------------------------------------------------------
(* Specification of one call of date_from_string *)

\* no call of get_valid_filename or find_title is under study
NoName ==
    /\ sarg = <<>> /\ convert_accent = TRUE
    /\ filename = None /\ text_title = None

\* no file has been copied, and nothing is known of the output directory
NoOutput == dry = FALSE /\ keep = FALSE /\ outdir = {} /\ copies = <<>>

\* the state of a program that has processed no file
NoEngine ==
    /\ OCR_DIR = None /\ CUSTOM_OCR_DIR = FALSE
    /\ dirs = {} /\ cache = {} /\ made = {} /\ removed = {}
    /\ flist = <<>> /\ remaining = <<>> /\ created = <<>>
    /\ not_treated = <<>> /\ used = <<>> /\ ncalls = 0

InitMatch ==
    /\ MAX_DATE \in MaxDates
    /\ line \in Lines
    /\ pc = "call"
    /\ result = None
    /\ textfile = None
    /\ scan = None
    /\ extension = "" /\ tags = None /\ title = None /\ trace = None
    /\ NoEngine
    /\ NoName
    /\ NoOutput

DateFromString ==
    /\ pc = "call"
    /\ result' = date_from_string(line, MAX_DATE)
    /\ pc' = "done"
    /\ UNCHANGED <<inputs, output, scan, trace, engine>>

NextMatch == DateFromString

SpecMatch == InitMatch /\ [][NextMatch]_vars

-----------------------------------------------------------------------------
(* Properties of date_from_string (specification SpecMatch) *)

Returned == pc = "done" /\ result.status = "return"

\* d is after max as a calendar date (year, month and day)
AfterDay(d, max) ==
    \/ d.year > max.year
    \/ d.year = max.year /\ d.month > max.month
    \/ d.year = max.year /\ d.month = max.month /\ d.day > max.day

\* C2: date_from_string never raises: every call returns a (date-or-None,
\* score) pair, whatever numeric or compact date the line holds.
C2_NeverRaises == pc = "done" => result.status = "return"

\* C3: every date returned with a non-zero score has its year in
\* [MIN_YEAR, MAX_DATE.year].
C3_YearInRange ==
    Returned /\ result.score # 0
        => result.d.year >= MIN_YEAR /\ result.d.year <= MAX_DATE.year

\* C4: no date that falls after MAX_DATE, compared as a full calendar date
\* (year, month and day), is returned.  (The other half of the claim, no
\* date before MIN_YEAR, is the lower bound of C3_YearInRange.)
C4_NeverAfterMaxDate ==
    Returned /\ result.d # None => ~AfterDay(result.d, MAX_DATE)

\* the patterns by priority, each named here independently of the cascade
PatternAt(i) ==
    CASE i = 1 -> place_le(line, MAX_DATE)
      [] i = 2 -> date_label4(line, MAX_DATE)
      [] i = 3 -> date_label_search(line, MAX_DATE)
      [] i = 4 -> numeric(line, MAX_DATE)
      [] i = 5 -> month_name(line, MAX_DATE)
      [] i = 6 -> compact(line, MAX_DATE)
      [] i = 7 -> bare_year(line, MAX_DATE)

\* the fixed score of each pattern
ScoreAt(i) ==
    CASE i \in {1, 2} -> 30
      [] i \in {3, 6} -> 5
      [] i = 4 -> 10
      [] i = 5 -> (IF line.mon.hasday THEN 10 ELSE 5)
      [] i = 7 -> 2

\* C9: the result is that of the first pattern, in the fixed order, that
\* yields a date, with that pattern's fixed score; the score is one of 0, 2,
\* 5, 10, 30 and the date is None exactly when the score is 0.
C9_FirstPatternWins ==
    Returned =>
        /\ result.score \in {0, 2, 5, 10, 30}
        /\ (result.d = None <=> result.score = 0)
        /\ \/ /\ \A i \in 1..7 : PatternAt(i) = None
              /\ result = Return(None, 0)
           \/ \E i \in 1..7 :
                /\ \A j \in 1..(i - 1) : PatternAt(j) = None
                /\ PatternAt(i) # None
                /\ result = PatternAt(i)
                /\ result.score = ScoreAt(i)

\* a line where a higher pattern matched without yielding, the numeric
\* pattern won, and lower patterns would have yielded too
C9_Witness ==
    /\ Returned
    /\ line.le # None /\ place_le(line, MAX_DATE) = None
    /\ result.score = 10 /\ result = numeric(line, MAX_DATE)
    /\ compact(line, MAX_DATE) # None /\ bare_year(line, MAX_DATE) # None

\* C10: a numeric match whose first field is a year 19xx/20xx is read as
\* Year/Month/Day: when no earlier pattern yields and that calendar date
\* exists and is not after MAX_DATE's month, it is returned with score 10.
C10_YearFirstSwapped ==
    /\ pc = "done"
    /\ line.num # None
    /\ IsYearToken(line.num.day)
    /\ \A j \in 1..3 : PatternAt(j) = None
    /\ datetime_ok(line.num.day, line.num.month, line.num.year)
    /\ compare_dates(Date(line.num.day, line.num.month, line.num.year), MAX_DATE)
    => result = Return(Date(line.num.day, line.num.month, line.num.year), 10)

\* "2001/1/23"
C10_Witness ==
    /\ pc = "done"
    /\ line.num = [day |-> 2001, month |-> 1, year |-> 23]
    /\ line.le = None /\ line.date4 = None /\ line.datelabel = None
    /\ result = Return(Date(2001, 1, 23), 10)

-----------------------------------------------------------------------------
(* date_from_txt: the scan of a text file and the reduction of its         *)
(* candidates                                                              *)

MAX_LINES == 200

RECURSIVE max_scores_from(_, _, _)
max_scores_from(datelist, res, mscore) ==
    IF datelist = <<>> THEN res
    ELSE LET c == Head(datelist)
         IN  IF c.score > mscore
             THEN max_scores_from(Tail(datelist), <<c.d>>, c.score)
             ELSE IF c.score = mscore
             THEN max_scores_from(Tail(datelist), Append(res, c.d), mscore)
             ELSE max_scores_from(Tail(datelist), res, mscore)

\* (mutant) the dates of all the candidates, whatever their score
max_scores_all(datelist) == [i \in 1..Len(datelist) |-> datelist[i].d]

max_scores(datelist) == max_scores_from(datelist, <<>>, 0)

\* (mutant) the score is not added to the count of lines
next_count_lines_only(count, score) == count + 1

\* count after a line of the given score: "count += 1" then "count += score"
next_count(count, score) == count + 1 + score

\* The loop of lines 436-444 from the line at the head of lines on: count is
\* the counter before the line is read, candidates the list so far, n the
\* number of lines given to date_from_string so far.
RECURSIVE scan_lines(_, _, _, _, _)
scan_lines(lines, count, candidates, n, max) ==
    IF lines = <<>> \/ count + 1 > MAX_LINES
    THEN [status |-> "return", candidates |-> candidates, scanned |-> n]
    ELSE LET r == date_from_string(Head(lines), max)
         IN  IF r.status = "raise"
             THEN [status |-> "raise", candidates |-> candidates, scanned |-> n + 1]
             ELSE scan_lines(Tail(lines), next_count(count, r.score),
                             IF r.d # None
                             THEN Append(candidates, [d |-> r.d, score |-> r.score])
                             ELSE candidates,
                             n + 1, max)

ReturnDate(d) == [status |-> "return", d |-> d]

RaiseDate == [status |-> "raise", d |-> None]

\* the value returned for the candidates collected
reduce(candidates) ==
    IF candidates = <<>> THEN None ELSE max_dates(max_scores(candidates))

\* A text file is [blank, pad, lines]: blank lines of pad word characters
\* each, in which no pattern of date_from_string matches, then lines.
File(blank, pad, lines) == [blank |-> blank, pad |-> pad, lines |-> lines]

Min(a, b) == IF a <= b THEN a ELSE b

\* The whole loop.  Each line of the leading run gives (None, 0) and adds 1
\* to count, so the run leaves count at its length, or stops the loop when
\* it is longer than MAX_LINES.
scan_file(text, max) ==
    LET k == Min(text.blank, MAX_LINES)
    IN  scan_lines(text.lines, k, <<>>, k, max)

date_from_txt(text, max) ==
    IF text = None THEN ReturnDate(None)
    ELSE LET s == scan_file(text, max)
         IN  IF s.status = "raise" THEN RaiseDate
             ELSE ReturnDate(reduce(s.candidates))

-----------------------------------------------------------------------------
(* The text files explored: a run of lines without any date, then a few    *)
(* lines among TextLines.                                                  *)

\* a line without any date, of w word characters
Blank(w) == Line(None, None, None, None, None, None, <<>>, w)

\* "23/1/2001"
NumLine(d, m, y) ==
    Line(None, None, None, [day |-> d, month |-> m, year |-> y], None, None,
         <<>>, 7)

\* "Rennes, le 1 juin 2000"
PhraseLine(d) ==
    Line([y4 |-> d.year, raw |-> d], None, None, None, None, None, <<>>, 17)

\* "Reunion de 2018"
YearLine(y) == Line(None, None, None, None, None, None, <<y>>, 13)

TextLines ==
    { Blank(0), NumLine(23, 1, 2001), NumLine(5, 1, 2001), NumLine(3, 12, 2000),
      NumLine(31, 11, 2001), PhraseLine(Date(2000, 6, 1)), YearLine(2018) }

\* longest run of lines after the blank ones
MaxText == 3

BlankRuns == {0, 197, 199, 200}

RECURSIVE SeqsUpTo(_, _)
SeqsUpTo(S, n) ==
    IF n = 0 THEN {<<>>}
    ELSE LET shorter == SeqsUpTo(S, n - 1)
         IN  shorter \cup { Append(t, x) : t \in shorter, x \in S }

Texts ==
    { File(k, 0, t) : k \in BlankRuns, t \in SeqsUpTo(TextLines, MaxText) }

-----------------------------------------------------------------------------
(* Specification of one call of date_from_txt *)

InitTxt ==
    /\ MAX_DATE \in MaxDates
    /\ textfile \in Texts \cup {None}
    /\ pc = "call"
    /\ result = None
    /\ line = None
    /\ scan = None
    /\ extension = "" /\ tags = None /\ title = None /\ trace = None
    /\ NoEngine
    /\ NoName
    /\ NoOutput

DateFromTxt ==
    /\ pc = "call"
    /\ result' = date_from_txt(textfile, MAX_DATE)
    /\ scan' = IF textfile = None THEN None
               ELSE scan_file(textfile, MAX_DATE)
    /\ pc' = "done"
    /\ UNCHANGED <<inputs, output, trace, engine>>

NextTxt == DateFromTxt

SpecTxt == InitTxt /\ [][NextTxt]_vars

-----------------------------------------------------------------------------
(* Properties of date_from_txt (specification SpecTxt) *)

ScanReturned == pc = "done" /\ scan # None /\ scan.status = "return"

MaxScore(candidates) ==
    CHOOSE m \in { candidates[i].score : i \in DOMAIN candidates } :
        \A i \in DOMAIN candidates : candidates[i].score <= m

YearMonthLeq(d1, d2) ==
    d1.year < d2.year \/ (d1.year = d2.year /\ d1.month <= d2.month)

-----------------------------------------------------------------------------
(* title_from_txt *)

\* the number of lines the first pass is meant to read
N == 12

FileLen(text) == text.blank + Len(text.lines)

\* the i-th line of the file, from 1
FileLine(text, i) ==
    IF i <= text.blank THEN Line(None, None, None, None, None, None, <<>>, text.pad)
    ELSE text.lines[i - text.blank]

\* A title is made of the lines first..last of the file: one line ("line":
\* more than 40 word characters; "year": a line with a year), or the lines
\* accumulated from the first one ("accum").
Title(kind, first, last) == [kind |-> kind, first |-> first, last |-> last]

\* The loop of lines 214-235 after i lines were read, with ascii_count word
\* characters accumulated: the title returned (None when the loop ends
\* without one) and the number of lines read.
RECURSIVE first_pass(_, _, _)
first_pass(text, i, ascii_count) ==
    IF i >= FileLen(text) THEN [title |-> None, read |-> i]
    ELSE LET j == i + 1
             nascii == FileLine(text, j).words
         IN  IF nascii > 40
             THEN [title |-> Title("line", j, j), read |-> j]
             ELSE IF ascii_count + nascii > 50
             THEN [title |-> Title("accum", 1, j), read |-> j]
             ELSE IF j > N
             THEN [title |-> None, read |-> j]
             ELSE first_pass(text, j, ascii_count + nascii)

\* the line has a token 19xx/20xx, and the first one is a plausible year
has_year(l) == year_tokens(l) # <<>> /\ Head(year_tokens(l)) >= MIN_YEAR

\* The loop of lines 240-249: the lines of the leading run have no year.
second_pass(text) ==
    LET found == { j \in 1..Len(text.lines) : has_year(text.lines[j]) }
    IN  IF found = {} THEN None
        ELSE LET j == CHOOSE j \in found : \A k \in found : j <= k
             IN  Title("year", text.blank + j, text.blank + j)

title_from_txt(text) ==
    IF text = None THEN None
    ELSE LET p == first_pass(text, 0, 0)
         IN  IF p.title # None THEN p.title ELSE second_pass(text)

-----------------------------------------------------------------------------
(* The text files explored for the title: up to MaxBlank lines of 0 or 4   *)
(* word characters, then up to two lines among TitleLines.                 *)

MaxBlank == 13

TitleLines == { Blank(0), Blank(20), Blank(45), YearLine(2018) }

TitleTexts ==
    { File(k, w, t) : k \in 0..MaxBlank, w \in {0, 4},
                      t \in SeqsUpTo(TitleLines, 2) }

-----------------------------------------------------------------------------
(* Specification of one call of title_from_txt *)

InitTitle ==
    /\ MAX_DATE \in MaxDates
    /\ textfile \in TitleTexts \cup {None}
    /\ pc = "call"
    /\ result = None
    /\ line = None
    /\ scan = None
    /\ extension = "" /\ tags = None /\ title = None /\ trace = None
    /\ NoEngine
    /\ NoName
    /\ NoOutput

TitleFromTxt ==
    /\ pc = "call"
    /\ result' = title_from_txt(textfile)
    /\ scan' = IF textfile = None THEN None ELSE first_pass(textfile, 0, 0)
    /\ pc' = "done"
    /\ UNCHANGED <<inputs, output, trace, engine>>

NextTitle == TitleFromTxt

SpecTitle == InitTitle /\ [][NextTitle]_vars

-----------------------------------------------------------------------------
(* Properties of title_from_txt (specification SpecTitle) *)

\* C8: the first pass never reads past 12 lines: it reads (cleans, counts,
\* accumulates) at most 12 lines, and a title it returns is made of lines
\* among the first 12.
C8_FirstPassWithin12 ==
    pc = "done" /\ scan # None =>
        /\ scan.read <= 12
        /\ scan.title # None => scan.title.last <= 12

-----------------------------------------------------------------------------
(* find_date and the (year, month) of rename.  A pair (year, month) of     *)
(* find_date is the sequence of its components that are not None: <<>>,    *)
(* <<year>> or <<year, month>> (the month is never known without the year).*)

search_tags(ext) ==
    LET base == <<"ModifyDate", "CreateDate">>
        first == IF ext \in {"pdf", "ai"} THEN <<"PDF:ModifyDate">> \o base
                 ELSE base
    IN  IF ext = "zip" THEN Append(first, "ZipModifyDate")
        ELSE IF ext \in {"ods", "odt"} THEN first \o <<"Date", "Creation-date">>
        ELSE first

\* (mutant) the lookups stop at the first tag that is present
tag_lookups_until_present(ext, tgs) ==
    LET st == search_tags(ext)
        present == { i \in 1..Len(st) : tgs[st[i]] # None }
    IN  IF present = {} THEN st
        ELSE SubSeq(st, 1, CHOOSE i \in present : \A j \in present : i <= j)

\* the get_tag calls of the first loop (lines 773-778), in order
tag_lookups(ext, tgs) == search_tags(ext)

\* exifdates: the values of the tags that are present, in priority order
exifdates(ext, tgs) ==
    LET st == tag_lookups(ext, tgs)
        vals == [i \in 1..Len(st) |-> tgs[st[i]]]
    IN  SelectSeq(vals, LAMBDA v : v # None)

year_month_from_date(date, max) ==
    IF date = None THEN <<>>
    ELSE LET y == IF date.year > max.year + 1 THEN date.year - 100 ELSE date.year
         IN  IF date.month = 1 /\ date.day = 1 THEN <<y>> ELSE <<y, date.month>>

\* A tag value is [fmt, date, hits]: fmt is the first of the four strptime
\* patterns that parses its first word (0: none does), date what it parses
\* to, hits what search_dates answers for the whole value.
TagValue(fmt, date, hits) == [fmt |-> fmt, date |-> date, hits |-> hits]

\* the body of the second loop (lines 780-812) for one value: the pair it
\* returns, if it returns
tag_date(d, max) ==
    IF d.fmt # 0 THEN [found |-> TRUE, ym |-> <<d.date.year, d.date.month>>]
    ELSE LET p == dateparser_search(d.hits, max)
         IN  IF p # <<>>
             THEN [found |-> TRUE, ym |-> year_month_from_date(max_dates(p), max)]
             ELSE [found |-> FALSE, ym |-> <<>>]

\* the second loop from the n-th value on: what it returns, and the number
\* of values it examined
RECURSIVE first_tag_date(_, _, _)
first_tag_date(dates, n, max) ==
    IF n > Len(dates) THEN [found |-> FALSE, ym |-> <<>>, parsed |-> Len(dates)]
    ELSE LET t == tag_date(dates[n], max)
         IN  IF t.found THEN [found |-> TRUE, ym |-> t.ym, parsed |-> n]
             ELSE first_tag_date(dates, n + 1, max)

\* What find_date gives: status "return" with the pair ym, or "raise"; and
\* what it consulted: lookups (the get_tag calls), parsed (the number of tag
\* values it tried to parse), title_tried (date_from_string was applied to
\* the title), text_tried (the text rendition was asked for and scanned),
\* source (where ym comes from).
Found(status, ym, lookups, parsed, title_tried, text_tried, source) ==
    [status |-> status, ym |-> ym, lookups |-> lookups, parsed |-> parsed,
     title_tried |-> title_tried, text_tried |-> text_tried, source |-> source]

\* (mutant) the text is scanned whatever the title gives
find_date_text_first(ext, tgs, ttl, text, max) ==
    LET lookups == tag_lookups(ext, tgs)
        t == first_tag_date(exifdates(ext, tgs), 1, max)
        x == date_from_txt(text, max)
    IN  IF t.found
        THEN Found("return", t.ym, lookups, t.parsed, FALSE, FALSE, "tag")
        ELSE IF x.status = "raise"
        THEN Found("raise", <<>>, lookups, t.parsed, FALSE, TRUE, "none")
        ELSE IF x.d # None
        THEN Found("return", year_month_from_date(x.d, max), lookups, t.parsed,
                   FALSE, TRUE, "text")
        ELSE LET r == date_from_string(ttl, max)
             IN  IF r.status = "raise"
                 THEN Found("raise", <<>>, lookups, t.parsed, TRUE, TRUE, "none")
                 ELSE Found("return", year_month_from_date(r.d, max), lookups,
                            t.parsed, TRUE, TRUE,
                            IF r.d # None THEN "title" ELSE "none")

\* text is what file_to_txt gives for the file (None when it fails)
find_date(ext, tgs, ttl, text, max) ==
    LET lookups == tag_lookups(ext, tgs)
        t == first_tag_date(exifdates(ext, tgs), 1, max)
    IN  IF t.found
        THEN Found("return", t.ym, lookups, t.parsed, FALSE, FALSE, "tag")
        ELSE LET r == date_from_string(ttl, max)
             IN  IF r.status = "raise"
                 THEN Found("raise", <<>>, lookups, t.parsed, TRUE, FALSE, "none")
                 ELSE IF r.d # None
                 THEN Found("return", year_month_from_date(r.d, max), lookups,
                            t.parsed, TRUE, FALSE, "title")
                 ELSE LET x == date_from_txt(text, max)
                      IN  IF x.status = "raise"
                          THEN Found("raise", <<>>, lookups, t.parsed, TRUE, TRUE,
                                     "none")
                          ELSE Found("return", year_month_from_date(x.d, max),
                                     lookups, t.parsed, TRUE, TRUE,
                                     IF x.d # None THEN "text" ELSE "none")

\* "%02d" % m
two_digits(m) == IF m < 10 THEN "0" \o ToString(m) ELSE ToString(m)

\* lines 891-899 of rename: the names of the year and month directories
rename_year_month(ym) ==
    IF ym = <<>> THEN [year |-> "Unknown_year", month |-> ""]
    ELSE [year |-> ToString(ym[1]),
          month |-> IF Len(ym) = 1 THEN "Unknown_month" ELSE two_digits(ym[2])]

\* the part of rename that names the directories (lines 890-900): the
\* strings (year, month), or the exception find_date let escape
rename(found) ==
    IF found.status = "raise" THEN [status |-> "raise", year |-> "", month |-> ""]
    ELSE LET ym == rename_year_month(found.ym)
         IN  [status |-> "return", year |-> ym.year, month |-> ym.month]

-----------------------------------------------------------------------------
(* The files explored for find_date *)

AllTags ==
    { "PDF:ModifyDate", "ModifyDate", "CreateDate", "ZipModifyDate", "Date",
      "Creation-date" }

Extensions == {"pdf", "zip", "odt", "jpg"}

\* "2017:01:09 12:23:00", "2040:01:01 00:00:00", "1601:01:01 00:00:00"
TagInRange == TagValue(1, Date(2017, 1, 9), <<>>)
TagFuture == TagValue(1, Date(2040, 1, 1), <<>>)
TagOld == TagValue(1, Date(1601, 1, 1), <<>>)

\* no strptime pattern parses the value; search_dates finds two dates in it
TagSearched ==
    TagValue(0, None, << Hit(Date(2117, 9, 21), TRUE, FALSE),
                         Hit(Date(2001, 1, 3), TRUE, TRUE) >>)

\* nothing parses the value
TagGarbage == TagValue(0, None, <<>>)

TagValues == {TagInRange, TagFuture, TagOld, TagSearched, TagGarbage}

InSeq(x, sq) == \E i \in 1..Len(sq) : sq[i] = x

\* the tags of a file of type ext: only those find_date asks for are drawn
TagSets(ext) ==
    { t \in [AllTags -> TagValues \cup {None}] :
        \A n \in AllTags : ~InSeq(n, search_tags(ext)) => t[n] = None }

FindTitles ==
    { Blank(0), NumLine(23, 1, 2001), NumLine(31, 11, 2001), YearLine(2018),
      NumLine(1, 1, 2001) }

FindTexts ==
    { None, File(0, 0, <<Blank(0)>>), File(0, 0, <<NumLine(3, 12, 2000)>>) }

-----------------------------------------------------------------------------
(* Specification of the date part of one call of rename *)

InitFind ==
    /\ MAX_DATE \in MaxDates
    /\ extension \in Extensions
    /\ tags \in TagSets(extension)
    /\ title \in FindTitles
    /\ textfile \in FindTexts
    /\ pc = "call"
    /\ result = None
    /\ line = None
    /\ scan = None
    /\ trace = None
    /\ NoEngine
    /\ NoName
    /\ NoOutput

Rename ==
    /\ pc = "call"
    /\ trace' = find_date(extension, tags, title, textfile, MAX_DATE)
    /\ result' = rename(trace')
    /\ pc' = "done"
    /\ UNCHANGED <<inputs, output, scan, engine>>

NextFind == Rename

SpecFind == InitFind /\ [][NextFind]_vars

-----------------------------------------------------------------------------
(* Properties of find_date and rename (specification SpecFind) *)

\* the value of the i-th tag of the priority list of the file
TagAt(i) == tags[search_tags(extension)[i]]

NbTags == Len(search_tags(extension))

\* the value is present and a date is read from it
TagYields(v) == v # None /\ tag_date(v, MAX_DATE).found

AnyTagYields == \E i \in 1..NbTags : TagYields(TagAt(i))

TitleYields == date_from_string(title, MAX_DATE).d # None

TextYields == date_from_txt(textfile, MAX_DATE).d # None

YearStrings(lo, hi) == { ToString(y) : y \in lo..hi }

\* C5: the year of the result of rename is 'Unknown_year' or a year of
\* [MIN_YEAR, MAX_DATE.year]: a tag date out of that range is discarded.
C5_YearUnknownOrInRange ==
    pc = "done" /\ result.status = "return" =>
        \/ result.year = "Unknown_year"
        \/ result.year \in YearStrings(MIN_YEAR, MAX_DATE.year)

\* C6 (as claimed): when the first tag of the priority list is present and a
\* date is read from it, get_tag is called once for the date tags.
C6_OneLookup ==
    pc = "done" /\ TagYields(TagAt(1)) => Len(trace.lookups) = 1

\* C6 (amended): get_tag is called once for every tag of the priority list,
\* in order, whatever the values; the short-circuit is on the parsing: when
\* the first tag is present and a date is read from it, no other value is
\* parsed, the result is that date and neither the title nor the text is
\* consulted.
C6_AllLookupsOneParse ==
    pc = "done" =>
        /\ trace.lookups = search_tags(extension)
        /\ TagYields(TagAt(1)) =>
             /\ trace.parsed = 1
             /\ trace.status = "return"
             /\ trace.ym = tag_date(TagAt(1), MAX_DATE).ym
             /\ ~trace.title_tried /\ ~trace.text_tried

\* the first tag yields, and a later tag is present and would yield too
C6_Witness ==
    /\ pc = "done"
    /\ TagYields(TagAt(1))
    /\ \E i \in 2..NbTags : TagYields(TagAt(i)) /\ TagAt(i) # TagAt(1)
    /\ trace.parsed = 1 /\ Len(trace.lookups) = NbTags

\* C7: the fallback chain.  The date comes from the tags whenever a tag
\* yields one; the title is matched only when no tag yields; the text is
\* scanned only when the title yields nothing; the year is 'Unknown_year',
\* with month '', exactly when the three sources yield nothing.
C7_FallbackChain ==
    pc = "done" =>
        /\ trace.title_tried => ~AnyTagYields
        /\ trace.text_tried => trace.title_tried /\ ~TitleYields
        /\ trace.status = "return" =>
             /\ AnyTagYields <=> trace.source = "tag"
             /\ trace.title_tried <=> ~AnyTagYields
             /\ trace.text_tried <=> (~AnyTagYields /\ ~TitleYields)
             /\ trace.source = "title" <=> (~AnyTagYields /\ TitleYields)
             /\ result.year = "Unknown_year"
                  <=> (~AnyTagYields /\ ~TitleYields /\ ~TextYields)
             /\ result.year = "Unknown_year" => result.month = ""

\* tags are present but none yields, the title has no date, the text has
C7_Witness ==
    /\ pc = "done"
    /\ \E i \in 1..NbTags : TagAt(i) # None
    /\ ~AnyTagYields /\ ~TitleYields /\ TextYields
    /\ trace.source = "text" /\ result.year = "2000" /\ result.month = "12"

-----------------------------------------------------------------------------
(* The bare year (specification SpecMatch) *)

\* the line matches none of the six patterns tried before the bare year
NoHigherPattern ==
    /\ line.le = None /\ line.date4 = None /\ line.datelabel = None
    /\ line.num = None /\ line.mon = None /\ line.compact = None

\* the 4-digit tokens of the line that lie in [MIN_YEAR, MAX_DATE.year]
TokensInRange ==
    { line.extra[i] : i \in DOMAIN line.extra } \cap (MIN_YEAR..MAX_DATE.year)

\* C11: for a line that matches no higher-priority pattern and holds 4-digit
\* year tokens, the result is the 1st of January of the latest token within
\* [MIN_YEAR, MAX_DATE.year] with score 2 (the tokens above MAX_DATE.year are
\* ignored), and (None, 0) when no token lies in that interval.
C11_LatestYearInRange ==
    pc = "done" /\ NoHigherPattern /\ line.extra # <<>> =>
        IF TokensInRange = {}
        THEN result = Return(None, 0)
        ELSE \E y \in TokensInRange :
                /\ \A z \in TokensInRange : z <= y
                /\ result = Return(Date(y, 1, 1), 2)

\* "1999 ... 2025" read in 2024: the token above the reference year is
\* ignored and the earlier one gives the date
C11_Witness ==
    /\ pc = "done" /\ NoHigherPattern
    /\ line.extra = <<1999, 2025>> /\ MAX_DATE.year = 2024
    /\ result = Return(Date(1999, 1, 1), 2)

-----------------------------------------------------------------------------
(* 2-digit years of numeric dates (specification SpecMatch) *)

\* the numeric pattern is the first one the line matches
NumericFirst ==
    /\ line.le = None /\ line.date4 = None /\ line.datelabel = None
    /\ line.num # None

\* the (day, year) fields of the numeric match, after the swap
NumFields == swap_day_year(line.num.day, line.num.year)

\* the numeric match is D/M/yy with a day and a month that exist in both
\* centuries
TwoDigitYearDate ==
    /\ NumericFirst
    /\ NumFields.year < 100
    /\ line.num.month \in 1..12
    /\ NumFields.day >= 1
    /\ datetime_ok(1900 + NumFields.year, line.num.month, NumFields.day)
    /\ datetime_ok(2000 + NumFields.year, line.num.month, NumFields.day)

\* the date read in the given century
InCentury(c) == Date(c + NumFields.year, line.num.month, NumFields.day)

\* C12 (as stated): a numeric date D/M/yy whose completion to 20yy falls after
\* MAX_DATE, the case yy = MAX_DATE.year mod 100 with a later month included,
\* is returned as the date of year 19yy with score 10.
C12_EarlierCentury ==
    pc = "done" /\ TwoDigitYearDate /\ ~compare_dates(InCentury(2000), MAX_DATE)
        => result = Return(InCentury(1900), 10)

\* C12 (amended): the century is chosen on the year alone.  yy above
\* MAX_DATE.year mod 100 gives the date of year 19yy with score 10; yy at or
\* below it is read as 20yy, and when that date is in a month after MAX_DATE's
\* the numeric pattern gives nothing: the result is not the date of year 19yy.
C12_PivotOnYearOnly ==
    pc = "done" /\ TwoDigitYearDate =>
        IF NumFields.year > MAX_DATE.year % 100
        THEN result = Return(InCentury(1900), 10)
        ELSE IF compare_dates(InCentury(2000), MAX_DATE)
             THEN result = Return(InCentury(2000), 10)
             ELSE result.d # InCentury(1900) /\ result.d # InCentury(2000)

\* "1/12/18" read on 2018-11-30: December 2018 is rejected and 1918 is not
\* tried
C12_Witness ==
    /\ pc = "done" /\ TwoDigitYearDate
    /\ line.num = [day |-> 1, month |-> 12, year |-> 18]
    /\ MAX_DATE = Date(2018, 11, 30)
    /\ line.mon = None /\ line.compact = None /\ line.extra = <<>>
    /\ result = Return(None, 0)

-----------------------------------------------------------------------------
(* Ties of the reduction (specification SpecTxt) *)

\* the positions, in scan order, of the candidates of maximum score that
\* share the (year, month) of the date returned
TiedAt ==
    LET c == scan.candidates
    IN  { i \in DOMAIN c : /\ c[i].score = MaxScore(c)
                           /\ c[i].d.year = result.d.year
                           /\ c[i].d.month = result.d.month }

\* some date was returned for a list of candidates
Reduced ==
    /\ ScanReturned /\ scan.candidates # <<>>
    /\ result.status = "return" /\ result.d # None

\* C13 (as stated): of the candidates of maximum score that share the latest
\* (year, month), the one found first in scan order is returned, day included.
C13_FirstFoundWins ==
    Reduced => \E i \in TiedAt : /\ \A j \in TiedAt : i <= j
                                 /\ result.d = scan.candidates[i].d

\* C13 (amended): of the candidates of maximum score that share the latest
\* (year, month), the one found last in scan order is returned, day included.
C13_LastFoundWins ==
    Reduced => \E i \in TiedAt : /\ \A j \in TiedAt : j <= i
                                 /\ result.d = scan.candidates[i].d

\* "23/1/2001" then "5/1/2001": the second date is returned
C13_Witness ==
    /\ Reduced
    /\ Len(scan.candidates) = 2
    /\ scan.candidates[1] = [d |-> Date(2001, 1, 23), score |-> 10]
    /\ scan.candidates[2] = [d |-> Date(2001, 1, 5), score |-> 10]
    /\ result.d = Date(2001, 1, 5)

-----------------------------------------------------------------------------
(* batch and clear_ocr: the cache directory and its text renditions.        *)
(* A cache directory is [id, marked]: marked tells that its path contains   *)
(* "rbc-ocr_".  A file is [dir, base, ext]: the directory it is in, the     *)
(* stem of its name (os.path.splitext of its basename) and the type         *)
(* find_type gives.  A text rendition stored in a cache directory is        *)
(* [dir, base, from]: the file <dir>/<base>.txt, and the file whose         *)
(* conversion wrote it.                                                     *)

Dir(id, marked) == [id |-> id, marked |-> marked]

\* the directory the n-th tempfile.mkdtemp(prefix='rbc-ocr_') creates
mkdtemp(n) == Dir(n, TRUE)

\* the directories the caller owns: "/data/txt" and "/data/rbc-ocr_old"
UserDirs == {Dir(11, FALSE), Dir(12, TRUE)}

Path(dir, base, ext) == [dir |-> dir, base |-> base, ext |-> ext]

\* The files explored: two pdf files named scan.pdf in two directories, with
\* no tags; memo.odt, with a Title tag and a ModifyDate tag; bad.txt, whose
\* text holds "31/11/2001"; a directory; a path that does not exist.
ScanA == Path(1, "scan", "pdf")
ScanB == Path(2, "scan", "pdf")
Memo == Path(1, "memo", "odt")
BadTxt == Path(1, "bad", "txt-ascii")
Photos == Path(1, "photos", "")
Gone == Path(1, "gone", "pdf")

RegularFiles == {ScanA, ScanB, Memo, BadTxt}

Paths == RegularFiles \cup {Photos, Gone}

\* os.path.isfile
isfile(f) == f \in RegularFiles

\* get_tag(et, "Title", filename) gives a title of 3 characters or more
has_title(f) == f = Memo

\* the ModifyDate tag of the file gives a date: find_date returns it and
\* does not ask for the text rendition
has_date_tag(f) == f = Memo

\* date_from_txt raises on the text of the rendition: the text of bad.txt
\* holds "31/11/2001", for which datetime() raises ValueError
text_raises(from) == from = BadTxt

\* file_to_txt(filename, base, extension) with the cache c, OCR_DIR ocr and
\* the existing directories ds: the file whose rendition it returns (None
\* when it returns None), and the cache it leaves.  With no directory to
\* write in, copyfile raises and the converters fail.
file_to_txt(f, c, ocr, ds) ==
    LET hit == { e \in c : e.dir = ocr /\ e.base = f.base }
    IN  IF hit # {}
        THEN [status |-> "return", from |-> (CHOOSE e \in hit : TRUE).from,
              cache |-> c]
        ELSE IF ocr \in ds
        THEN [status |-> "return", from |-> f,
              cache |-> c \cup {[dir |-> ocr, base |-> f.base, from |-> f]}]
        ELSE IF f.ext \in {"txt-ascii", "txt-utf-8"}
        THEN [status |-> "raise", from |-> None, cache |-> c]
        ELSE [status |-> "return", from |-> None, cache |-> c]

\* What rename does for one file of batch: the rendition it read (from,
\* None when it read none) and the cache it leaves.  find_title asks for the
\* rendition when there is no Title tag, find_date when neither the tags nor
\* the title give a date (the titles of the files explored hold no date).
rename_file(f, c, ocr, ds) ==
    LET t1 == IF has_title(f)
              THEN [status |-> "return", from |-> None, cache |-> c]
              ELSE file_to_txt(f, c, ocr, ds)
        t2 == IF ~has_date_tag(f) THEN file_to_txt(f, t1.cache, ocr, ds)
              ELSE [status |-> "return", from |-> t1.from, cache |-> t1.cache]
    IN  IF \/ t1.status = "raise" \/ t2.status = "raise"
           \/ (~has_date_tag(f) /\ text_raises(t2.from))
        THEN [status |-> "raise", from |-> t2.from, cache |-> t2.cache]
        ELSE [status |-> "return", from |-> t2.from, cache |-> t2.cache]

\* the locals of batch when its loop starts: remaining is a copy of flist
BatchStart(fl, c) ==
    [status |-> "return", cache |-> c, remaining |-> fl, created |-> <<>>,
     not_treated |-> <<>>, used |-> <<>>]

\* The loop of batch over the files left to process.  remaining.pop(0)
\* raises on an empty list and the assertion raises on another name (status
\* "assert"); an exception of rename escapes (status "raise": the try of the
\* loop is commented out).
RECURSIVE batch_loop(_, _, _, _)
batch_loop(files, st, ocr, ds) ==
    IF files = <<>> THEN st
    ELSE LET fname == Head(files)
         IN  IF st.remaining = <<>> \/ Head(st.remaining) # fname
             THEN [st EXCEPT !.status = "assert"]
             ELSE LET popped == [st EXCEPT !.remaining = Tail(@)]
                      r == rename_file(fname, st.cache, ocr, ds)
                  IN  IF ~isfile(fname)
                      THEN batch_loop(Tail(files),
                                      [popped EXCEPT !.not_treated = Append(@, fname)],
                                      ocr, ds)
                      ELSE IF r.status = "raise"
                      THEN [popped EXCEPT !.status = "raise", !.cache = r.cache]
                      ELSE batch_loop(Tail(files),
                                      [popped EXCEPT
                                         !.cache = r.cache,
                                         !.created = Append(@, [filename |-> fname,
                                                                text |-> r.from]),
                                         !.used = Append(@, [filename |-> fname,
                                                             from |-> r.from])],
                                      ocr, ds)

\* (mutant) the files skipped are not reported
batch_return_remaining(st) == st.remaining

\* the second list batch returns
batch_return(st) == st.not_treated \o st.remaining

\* (mutant) every directory whose name holds "rbc-ocr_" is removed
may_remove_marked(dir, custom) == dir.marked

\* the test of clear_ocr
may_remove(dir, custom) == ~(custom \/ ~dir.marked)

-----------------------------------------------------------------------------
(* Specification of a program that calls batch and clear_ocr *)

\* number of calls of a run
MaxCalls == 3

\* longest list of files given to batch
MaxFiles == 2

FileLists == SeqsUpTo(Paths, MaxFiles)

\* what the caller may pass as ocr_dir: nothing, a directory of its own, or
\* a value get_ocr_dir() gave it
OcrDirArgs == {None} \cup UserDirs \cup made \cup {OCR_DIR}

InitBatch ==
    /\ MAX_DATE = Date(2018, 11, 30)
    /\ pc = "idle"
    /\ result = None
    /\ NoName
    /\ NoOutput
    /\ line = None /\ textfile = None /\ scan = None
    /\ extension = "" /\ tags = None /\ title = None /\ trace = None
    /\ OCR_DIR = None /\ CUSTOM_OCR_DIR = FALSE
    /\ dirs = UserDirs /\ cache = {} /\ made = {} /\ removed = {}
    /\ flist = <<>> /\ remaining = <<>> /\ created = <<>>
    /\ not_treated = <<>> /\ used = <<>> /\ ncalls = 0

Batch(fl, ocr_dir) ==
    /\ ncalls < MaxCalls
    /\ LET fresh == mkdtemp(Cardinality(made) + 1)
           ocr == IF ocr_dir = None THEN fresh ELSE ocr_dir
           ds == IF ocr_dir = None THEN dirs \cup {fresh} ELSE dirs
       IN  \E st \in {batch_loop(fl, BatchStart(fl, cache), ocr, ds)} :
           /\ OCR_DIR' = ocr
           /\ CUSTOM_OCR_DIR' = IF ocr_dir = None THEN FALSE
                                ELSE IF ocr_dir # OCR_DIR THEN TRUE
                                ELSE CUSTOM_OCR_DIR
           /\ dirs' = ds
           /\ made' = IF ocr_dir = None THEN made \cup {fresh} ELSE made
           /\ cache' = st.cache
           /\ flist' = fl
           /\ remaining' = st.remaining
           /\ created' = st.created
           /\ not_treated' = st.not_treated
           /\ used' = st.used
           /\ result' = [call |-> "batch", status |-> st.status,
                         created |-> IF st.status = "return" THEN st.created
                                     ELSE <<>>,
                         second |-> IF st.status = "return" THEN batch_return(st)
                                    ELSE <<>>]
    /\ ncalls' = ncalls + 1
    /\ UNCHANGED <<inputs, output, pc, scan, trace, removed>>

\* "rbc-ocr_" in None raises; rmtree raises when the directory is gone
ClearOcr ==
    /\ ncalls < MaxCalls
    /\ IF ~CUSTOM_OCR_DIR /\ OCR_DIR = None
       THEN /\ result' = [call |-> "clear_ocr", status |-> "raise"]
            /\ UNCHANGED <<dirs, cache, removed>>
       ELSE IF ~may_remove(OCR_DIR, CUSTOM_OCR_DIR)
       THEN /\ result' = [call |-> "clear_ocr", status |-> "refused"]
            /\ UNCHANGED <<dirs, cache, removed>>
       ELSE IF OCR_DIR \notin dirs
       THEN /\ result' = [call |-> "clear_ocr", status |-> "raise"]
            /\ UNCHANGED <<dirs, cache, removed>>
       ELSE /\ result' = [call |-> "clear_ocr", status |-> "removed"]
            /\ dirs' = dirs \ {OCR_DIR}
            /\ cache' = { e \in cache : e.dir # OCR_DIR }
            /\ removed' = removed \cup {OCR_DIR}
    /\ ncalls' = ncalls + 1
    /\ UNCHANGED <<inputs, output, pc, scan, trace, OCR_DIR, CUSTOM_OCR_DIR, made,
                   flist, remaining, created, not_treated, used>>

NextBatch ==
    \/ \E fl \in FileLists, ocr_dir \in OcrDirArgs : Batch(fl, ocr_dir)
    \/ ClearOcr

SpecBatch == InitBatch /\ [][NextBatch]_vars

-----------------------------------------------------------------------------
(* Ownership of the cache directory (specification SpecBatch) *)

\* C14: whatever batch and clear_ocr calls were made, with ocr_dir omitted,
\* set to a directory of the caller or set to a value of get_ocr_dir(), every
\* directory clear_ocr deleted was created by tempfile.mkdtemp in batch, and
\* no directory of the caller was deleted.
C14_OnlyEngineDirsRemoved ==
    /\ removed \subseteq made
    /\ removed \cap UserDirs = {}
    /\ UserDirs \subseteq dirs

\* a batch wrote its renditions in "/data/rbc-ocr_old", a directory of the
\* caller, the next one in a temporary directory, and clear_ocr deleted the
\* temporary directory only
C14_Witness ==
    /\ result = [call |-> "clear_ocr", status |-> "removed"]
    /\ removed = {mkdtemp(1)}
    /\ \E e \in cache : e.dir = Dir(12, TRUE)

-----------------------------------------------------------------------------
(* The text renditions read (specification SpecBatch) *)

\* C15: the text rendition read for a file is one produced from that file,
\* never the rendition another file left in the cache directory.
C15_OwnRendition ==
    \A i \in DOMAIN used :
        used[i].from # None => used[i].from = used[i].filename

-----------------------------------------------------------------------------
(* The lists of batch (specification SpecBatch) *)

\* the names of the files renamed, in order
CreatedNames == [i \in DOMAIN result.created |-> result.created[i].filename]

\* C20: the assertion remaining.pop(0) == filename never fails, whatever the
\* list (duplicates, directories and missing paths included); when batch
\* returns, the regular files are in created and the others in the second
\* list, each occurrence once and in the order of the list, and remaining is
\* empty.
C20_ListsPartitionInput ==
    (result # None /\ result.call = "batch") =>
        /\ result.status # "assert"
        /\ result.status = "return" =>
             /\ remaining = <<>>
             /\ Len(result.created) + Len(result.second) = Len(flist)
             /\ CreatedNames = SelectSeq(flist, isfile)
             /\ result.second = SelectSeq(flist, LAMBDA f : ~isfile(f))

\* a list that names the same file twice: it is renamed twice
C20_Witness ==
    /\ result # None /\ result.call = "batch" /\ result.status = "return"
    /\ flist = <<Memo, Memo>>
    /\ Len(result.created) = 2 /\ result.second = <<>>

-----------------------------------------------------------------------------
(* get_valid_filename.  A string is the sequence of its characters; the     *)
(* characters explored are a letter, the digit 0, "_", the space, the tab,  *)
(* the NUL character and a character that is not ASCII, U+5317, which       *)
(* unidecode turns into a word followed by a space ("Bei ").                *)

Nul == "NUL"
Han == "U+5317"

Chars == {"a", "0", "_", " ", "\t", Nul, Han}

\* the characters str.strip() removes
IsSpace(c) == c \in {" ", "\t"}

RECURSIVE lstrip(_)
lstrip(t) == IF t # <<>> /\ IsSpace(Head(t)) THEN lstrip(Tail(t)) ELSE t

RECURSIVE rstrip(_)
rstrip(t) ==
    IF t # <<>> /\ IsSpace(t[Len(t)]) THEN rstrip(SubSeq(t, 1, Len(t) - 1))
    ELSE t

strip(t) == rstrip(lstrip(t))

\* s.replace(' ', '_')
replace_space(t) == [i \in 1..Len(t) |-> IF t[i] = " " THEN "_" ELSE t[i]]

\* s.replace('\000', '')
remove_nul(t) == SelectSeq(t, LAMBDA c : c # Nul)

RECURSIVE unidecode(_)
unidecode(t) ==
    IF t = <<>> THEN <<>>
    ELSE (IF Head(t) = Han THEN <<"a", " ">> ELSE <<Head(t)>>)
         \o unidecode(Tail(t))

\* the characters of [A-Za-z0-9._-] among those explored
SafeChars == {"a", "d", "f", "p", "s", "t", "x", "0", "1", "_", ".", "-"}

\* (mutant) the spaces are kept
sub_unsafe_but_space(t) ==
    [i \in 1..Len(t) |-> IF t[i] \in SafeChars \cup {" "} THEN t[i] ELSE "_"]

\* re.sub(r'[^A-Za-z0-9._-]', '_', s)
sub_unsafe(t) ==
    [i \in 1..Len(t) |-> IF t[i] \in SafeChars THEN t[i] ELSE "_"]

\* the number of 0 the string starts with
RECURSIVE zeros(_)
zeros(t) == IF t # <<>> /\ Head(t) = "0" THEN 1 + zeros(Tail(t)) ELSE 0

\* what 00+ takes at the start of t: every 0 (the quantifier is greedy), or
\* nothing when there are fewer than two
zero_run(t) == IF zeros(t) >= 2 THEN zeros(t) ELSE 0

\* re.sub(r'_00+', '', s): the matches are taken from left to right and do
\* not overlap
RECURSIVE sub_zero_runs(_)
sub_zero_runs(t) ==
    IF t = <<>> THEN <<>>
    ELSE IF Head(t) = "_" /\ zero_run(Tail(t)) >= 2
    THEN sub_zero_runs(SubSeq(t, 2 + zero_run(Tail(t)), Len(t)))
    ELSE <<Head(t)>> \o sub_zero_runs(Tail(t))

get_valid_filename(t, convert) ==
    LET s1 == replace_space(strip(t))
        s2 == remove_nul(strip(s1))
        s3 == IF convert THEN unidecode(s2) ELSE s2
    IN  sub_zero_runs(sub_unsafe(s3))

-----------------------------------------------------------------------------
(* Specification of get_valid_filename applied twice *)

\* longest string explored
MaxChars == 5

InitName ==
    /\ MAX_DATE = Date(2018, 11, 30)
    /\ sarg \in SeqsUpTo(Chars, MaxChars)
    /\ convert_accent \in BOOLEAN
    /\ pc = "call"
    /\ result = None
    /\ line = None /\ textfile = None /\ scan = None
    /\ extension = "" /\ tags = None /\ title = None /\ trace = None
    /\ filename = None /\ text_title = None
    /\ NoEngine
    /\ NoOutput

GetValidFilename ==
    /\ pc = "call"
    /\ result' = [once |-> get_valid_filename(sarg, convert_accent)]
    /\ pc' = "once"
    /\ UNCHANGED <<inputs, output, scan, trace, engine>>

GetValidFilenameAgain ==
    /\ pc = "once"
    /\ result' = [once |-> result.once,
                  twice |-> get_valid_filename(result.once, convert_accent)]
    /\ pc' = "twice"
    /\ UNCHANGED <<inputs, output, scan, trace, engine>>

NextName == GetValidFilename \/ GetValidFilenameAgain

SpecName == InitName /\ [][NextName]_vars

\* the string holds "_00" somewhere
HasZeroRun(t) ==
    \E i \in 1..(Len(t) - 2) : t[i] = "_" /\ t[i + 1] = "0" /\ t[i + 2] = "0"

\* C16: get_valid_filename is idempotent for either value of convert_accent:
\* applied to its own result it gives that result again; and its result holds
\* no run "_00+", so that removing the runs creates no new run.
C16_Idempotent ==
    /\ pc \in {"once", "twice"} => ~HasZeroRun(result.once)
    /\ pc = "twice" => result.twice = result.once

\* "_0_00": the run removed stands after "_0", and "_0" is left
C16_Witness ==
    /\ pc = "twice"
    /\ sarg = <<"_", "0", "_", "0", "0">>
    /\ result.once = <<"_", "0">>
    /\ result.twice = <<"_", "0">>

-----------------------------------------------------------------------------
(* The lines date_from_txt scans (specification SpecTxt) *)

\* the score date_from_string gives to the m-th line after the blank ones
ScoreOf(m) == date_from_string(textfile.lines[m], MAX_DATE).score

\* the sum of the scores of the first m of these lines
RECURSIVE ScoreSum(_)
ScoreSum(m) == IF m = 0 THEN 0 ELSE ScoreSum(m - 1) + ScoreOf(m)

\* the candidates of the first m of these lines, in order
RECURSIVE CandidatesOf(_)
CandidatesOf(m) ==
    IF m = 0 THEN <<>>
    ELSE LET r == date_from_string(textfile.lines[m], MAX_DATE)
         IN  IF r.score # 0
             THEN Append(CandidatesOf(m - 1), [d |-> r.d, score |-> r.score])
             ELSE CandidatesOf(m - 1)

\* C17 (as stated): date_from_string is applied to each of the first
\* MAX_LINES lines of the file and to no other, whatever the candidates found
\* and their scores, and every candidate of these lines is collected.
C17_FirstMaxLines ==
    ScanReturned =>
        LET m == Min(FileLen(textfile), MAX_LINES) - Min(textfile.blank, MAX_LINES)
        IN  /\ scan.scanned = Min(FileLen(textfile), MAX_LINES)
            /\ scan.candidates = CandidatesOf(m)

\* the lines after the blank ones that are scanned: the number of the line
\* in the file plus the scores of the lines before it is at most MAX_LINES
ScannedLines ==
    { m \in 1..Len(textfile.lines) :
        textfile.blank + m + ScoreSum(m - 1) <= MAX_LINES }

\* C17 (amended): date_from_string is applied to the lines in order as long
\* as the number of the line plus the sum of the scores of the lines before it
\* is at most MAX_LINES, so to no line beyond the first MAX_LINES and to fewer
\* of them when dates are found; every candidate of the lines scanned is
\* collected.
C17_ScoresShortenScan ==
    ScanReturned =>
        /\ scan.scanned = Min(textfile.blank, MAX_LINES) + Cardinality(ScannedLines)
        /\ scan.scanned <= Min(FileLen(textfile), MAX_LINES)
        /\ scan.candidates = CandidatesOf(Cardinality(ScannedLines))

\* 197 blank lines, "23/1/2001" on line 198, "3/12/2000" on line 199: the
\* score of line 198 ends the scan and line 199 is not read
C17_Witness ==
    /\ ScanReturned
    /\ textfile.blank = 197
    /\ textfile.lines = <<NumLine(23, 1, 2001), NumLine(3, 12, 2000)>>
    /\ scan.scanned = 198
    /\ Len(scan.candidates) = 1

-----------------------------------------------------------------------------
(* find_title.  A string is known by its length: Str(n).  The file is       *)
(* [len, digits]: the length of the stem of its name and the number of      *)
(* digits in it.  The Title tag is [len, in_filename]: in_filename tells    *)
(* that get_valid_filename(title) occurs in the path of the file.  A title  *)
(* is the sequence of the fragments '-'.join puts together, each [part,     *)
(* len]; the empty sequence is the empty string.                            *)

Str(n) == [len |-> n]

Fragment(part, n) == [part |-> part, len |-> n]

\* filter(None, ...): None and the empty string are dropped
fragments(parts) == SelectSeq(parts, LAMBDA p : p.len > 0)

\* (mutant) one character that is not a digit is enough
keeps_stem_one(file) == file.len - file.digits >= 1

\* the test of line 686: the stem is not "full of numbers"
keeps_stem(file) == file.len - file.digits >= 2

\* (mutant) the Author tag is always looked up
consult_author_always(title_len) == TRUE

\* the test of line 707
consult_author(title_len) == title_len < 20

\* the test of line 711, inside the one of line 707
consult_creator(title_len) == title_len < 5

\* creator[:10]
truncate10(n) == IF n > 10 THEN 10 ELSE n

\* What find_title returns, (old_title, new_title), and the get_tag calls it
\* made.  old_title is "stem" for the stem of the file name or "" for the
\* empty string; ttxt is what title_from_txt gives for the text rendition.
find_title(file, tgs, ttxt) ==
    LET prefix == IF keeps_stem(file) THEN "stem" ELSE ""
        t == tgs.Title
    IN  IF t # None /\ t.len >= 3
        THEN IF t.in_filename
             THEN [old_title |-> "stem", new_title |-> <<>>, lookups |-> <<"Title">>]
             ELSE [old_title |-> prefix,
                   new_title |-> <<Fragment("title", t.len)>>,
                   lookups |-> <<"Title">>]
        ELSE LET n == IF ttxt = None THEN 0 ELSE ttxt.len
                 ask_author == consult_author(n)
                 ask_creator == ask_author /\ consult_creator(n)
                 author == IF ask_author /\ tgs.Author # None
                           THEN tgs.Author.len ELSE 0
                 creator == IF ask_creator /\ tgs.Creator # None
                            THEN truncate10(tgs.Creator.len) ELSE 0
                 new == fragments(<< Fragment("title", n),
                                     Fragment("author", author),
                                     Fragment("creator", creator) >>)
             IN  [old_title |-> IF new = <<>> /\ prefix = "" THEN "stem" ELSE prefix,
                  new_title |-> new,
                  lookups |-> <<"Title">>
                              \o (IF ask_author THEN <<"Author">> ELSE <<>>)
                              \o (IF ask_creator THEN <<"Creator">> ELSE <<>>)]

\* line 888 of rename: '-'.join(filter(None, [old_title, new_title]))
composed_title(file, found) ==
    (IF found.old_title = "stem" THEN <<Fragment("stem", file.len)>> ELSE <<>>)
    \o found.new_title

-----------------------------------------------------------------------------
(* The files explored for find_title *)

\* "12345678", "f1234", "f1234a", "doc"
Stems ==
    { [len |-> 8, digits |-> 8], [len |-> 5, digits |-> 4],
      [len |-> 6, digits |-> 4], [len |-> 3, digits |-> 0] }

TitleTags ==
    {None} \cup [len : {0, 2, 3, 10, 19, 20, 25}, in_filename : BOOLEAN]

\* title_from_txt gives None or a line, which is never empty
TextTitles == {None} \cup { Str(n) : n \in {4, 5, 19, 20, 45} }

Authors == {None, Str(0), Str(6)}

Creators == {None, Str(0), Str(4), Str(15)}

-----------------------------------------------------------------------------
(* Specification of the title part of one call of rename *)

InitFindTitle ==
    /\ MAX_DATE = Date(2018, 11, 30)
    /\ filename \in Stems
    /\ tags \in [Title : TitleTags, Author : Authors, Creator : Creators]
    /\ text_title \in TextTitles
    /\ pc = "call"
    /\ result = None
    /\ trace = None
    /\ line = None /\ textfile = None /\ scan = None
    /\ extension = "" /\ title = None
    /\ sarg = <<>> /\ convert_accent = TRUE
    /\ NoEngine
    /\ NoOutput

FindTitle ==
    /\ pc = "call"
    /\ trace' = find_title(filename, tags, text_title)
    /\ result' = composed_title(filename, trace')
    /\ pc' = "done"
    /\ UNCHANGED <<inputs, output, scan, engine>>

NextFindTitle == FindTitle

SpecFindTitle == InitFindTitle /\ [][NextFindTitle]_vars

-----------------------------------------------------------------------------
(* Properties of find_title (specification SpecFindTitle) *)

\* the Title tag is taken as the title: it has 3 characters or more
TitleTagTaken == tags.Title # None /\ tags.Title.len >= 3

\* the length of the title extracted from the text, 0 if there is none
TextTitleLen == IF text_title = None THEN 0 ELSE text_title.len

\* the length of the title found: the Title tag, else the one of the text
FoundTitleLen == IF TitleTagTaken THEN tags.Title.len ELSE TextTitleLen

\* the length of the fragment a tag gives, 0 when there is no such tag
TagLen(name) == IF tags[name] = None THEN 0 ELSE tags[name].len

\* the title, the author and the first 10 characters of the creator, those
\* that are empty left out
JoinedFragments(n, with_author, with_creator) ==
    (IF n > 0 THEN <<Fragment("title", n)>> ELSE <<>>)
    \o (IF with_author /\ TagLen("Author") > 0
        THEN <<Fragment("author", TagLen("Author"))>> ELSE <<>>)
    \o (IF with_creator /\ TagLen("Creator") > 0
        THEN <<Fragment("creator", IF TagLen("Creator") > 10 THEN 10
                                    ELSE TagLen("Creator"))>>
        ELSE <<>>)

\* C18 (as stated): the Author tag is consulted exactly when the title found
\* (the Title tag or the title of the text, empty if none) has fewer than 20
\* characters, the Creator tag exactly when it has fewer than 5, and the new
\* title joins the title, the author and the first 10 characters of the
\* creator.
C18_ThresholdsOnFoundTitle ==
    pc = "done" =>
        /\ InSeq("Author", trace.lookups) <=> FoundTitleLen < 20
        /\ InSeq("Creator", trace.lookups) <=> FoundTitleLen < 5
        /\ trace.new_title =
             JoinedFragments(FoundTitleLen, FoundTitleLen < 20, FoundTitleLen < 5)

\* C18 (amended): a Title tag of 3 characters or more is returned as the new
\* title (the empty string when it already occurs in the file name) and
\* neither Author nor Creator is consulted; otherwise the title is the one
\* extracted from the text (empty if none), Author is consulted exactly when
\* it has fewer than 20 characters, Creator exactly when it has fewer than 5,
\* and the new title joins the title, the author and the first 10 characters
\* of the creator.
C18_ThresholdsOnTextTitle ==
    pc = "done" =>
        IF TitleTagTaken
        THEN /\ trace.lookups = <<"Title">>
             /\ trace.new_title = IF tags.Title.in_filename THEN <<>>
                                  ELSE <<Fragment("title", tags.Title.len)>>
        ELSE /\ InSeq("Author", trace.lookups) <=> TextTitleLen < 20
             /\ InSeq("Creator", trace.lookups) <=> TextTitleLen < 5
             /\ trace.new_title =
                  JoinedFragments(TextTitleLen, TextTitleLen < 20, TextTitleLen < 5)

\* no Title tag, a title of 4 characters in the text, an author and a
\* creator of 15 characters: the three are joined, the creator cut to 10
C18_Witness ==
    /\ pc = "done"
    /\ tags.Title = None /\ text_title = Str(4)
    /\ tags.Author = Str(6) /\ tags.Creator = Str(15)
    /\ trace.lookups = <<"Title", "Author", "Creator">>
    /\ trace.new_title = << Fragment("title", 4), Fragment("author", 6),
                            Fragment("creator", 10) >>

\* the stem of the file name has at least 2 characters that are not digits
StemKept == filename.len - filename.digits >= 2

\* the stem is in the pair find_title returns, and so in the composed title
StemReturned ==
    /\ trace.old_title = "stem"
    /\ InSeq(Fragment("stem", filename.len), result)

\* the stem is in neither
StemDiscarded ==
    /\ trace.old_title = ""
    /\ ~InSeq(Fragment("stem", filename.len), result)

-----------------------------------------------------------------------------
(* The month of the result (specification SpecFind) *)

\* the score of the date find_date chose in the title or in the text (0 when
\* the date comes from a tag or from nowhere)
ChosenScore ==
    IF trace.source = "title" THEN date_from_string(title, MAX_DATE).score
    ELSE IF trace.source = "text"
    THEN MaxScore(scan_file(textfile, MAX_DATE).candidates)
    ELSE 0

\* C22: the month of the result of rename is 'Unknown_month' only when the
\* date chosen is a bare year (score 2) of the title or of the text; a date
\* found with its month, the 1st of January included, has its month reported
\* in two digits.
C22_UnknownMonthOnlyBareYear ==
    pc = "done" /\ result.status = "return" /\ result.month = "Unknown_month" =>
        /\ trace.source \in {"title", "text"}
        /\ ChosenScore = 2

-----------------------------------------------------------------------------
(* The destination of a copy.  A path under newdir is [year, month, name]:  *)
(* the names of the two directories rename makes and the name of the file   *)
(* in them, a sequence of characters without separator.                     *)

Dest(year, month, name) == [year |-> year, month |-> month, name |-> name]

\* the position of the last "." of the name (0: none)
rfind_dot(name) ==
    LET dots == { i \in 1..Len(name) : name[i] = "." }
    IN  IF dots = {} THEN 0 ELSE CHOOSE i \in dots : \A j \in dots : j <= i

\* os.path.splitext on a name: the extension starts at the last dot, unless
\* only dots come before it
splitext(name) ==
    LET dot == rfind_dot(name)
    IN  IF dot = 0 \/ \A i \in 1..(dot - 1) : name[i] = "."
        THEN [base |-> name, ext |-> <<>>]
        ELSE [base |-> SubSeq(name, 1, dot - 1),
              ext |-> SubSeq(name, dot, Len(name))]

DigitChars == <<"0", "1", "2", "3", "4", "5", "6", "7", "8", "9">>

RECURSIVE decimal(_)
decimal(n) ==
    IF n < 10 THEN <<DigitChars[n + 1]>>
    ELSE decimal(n \div 10) \o <<DigitChars[(n % 10) + 1]>>

\* "_%02d" % count
suffix(count) == <<"_">> \o (IF count < 10 THEN <<"0">> ELSE <<>>) \o decimal(count)

\* most paths make_unique_path is let to test
MaxTries == 8

\* The loop of make_unique_path: path is the path to test, count the value
\* of the variable of that name.  The result is the path returned and the
\* number of paths tested (status "loop": MaxTries paths were tested and all
\* exist).
RECURSIVE unique_loop(_, _, _, _, _)
unique_loop(path, base, ext, count, existing) ==
    IF path \notin existing
    THEN [status |-> "return", path |-> path, tested |-> count]
    ELSE IF count >= MaxTries
    THEN [status |-> "loop", path |-> path, tested |-> count]
    ELSE unique_loop([path EXCEPT !.name = base \o suffix(count) \o ext],
                     base, ext, count + 1, existing)

\* (mutant) the path with the first suffix is returned without a test
make_unique_path_once(path, existing) ==
    LET sp == splitext(path.name)
    IN  IF path \notin existing
        THEN [status |-> "return", path |-> path, tested |-> 1]
        ELSE [status |-> "return",
              path |-> [path EXCEPT !.name = sp.base \o suffix(1) \o sp.ext],
              tested |-> 1]

\* existing: the paths for which os.path.exists is true
make_unique_path(path, existing) ==
    LET sp == splitext(path.name)
    IN  unique_loop(path, sp.base, sp.ext, 1, existing)

\* re.sub(r'_{2,}', '_', s)
RECURSIVE sub_underscores(_)
sub_underscores(t) ==
    IF t = <<>> THEN <<>>
    ELSE IF Head(t) = "_" /\ Len(t) >= 2 /\ t[2] = "_"
    THEN sub_underscores(Tail(t))
    ELSE <<Head(t)>> \o sub_underscores(Tail(t))

\* s[:100]
truncate100(t) == IF Len(t) > 100 THEN SubSeq(t, 1, 100) ELSE t

Txt == <<"t", "x", "t">>

\* lines 908-915 of rename: the path asked for.  ym is the pair of
\* find_date, ttl the title, ext the normalized type, keeping the argument
\* keep, base the basename of the file.
rename_path(ym, ttl, ext, keeping, base) ==
    LET dir == rename_year_month(ym)
        e == IF Len(ext) >= 3 /\ SubSeq(ext, 1, 3) = Txt THEN Txt ELSE ext
        t == truncate100(sub_underscores(get_valid_filename(ttl, TRUE)))
    IN  Dest(dir.year, dir.month, IF keeping THEN base ELSE t \o <<".">> \o e)

-----------------------------------------------------------------------------
(* Specification of the copies of one batch: each step is one iteration of  *)
(* the loop of batch on a regular file, from the path rename asks for to    *)
(* the copy.  What find_date, find_title and find_type give for the file is *)
(* drawn from small sets.                                                   *)

\* (year, month) pairs of find_date: no date, January 2001
YearMonths == { <<>>, <<2001, 1>> }

\* titles: "a", "a 01"
RawTitles == { <<"a">>, <<"a", " ", "0", "1">> }

\* normalized types: "pdf", "txt-a"
ExtNames == { <<"p", "d", "f">>, <<"t", "x", "t", "-", "a">> }

\* basenames of the files: "a.pdf", "a_01.pdf", "a", ".a"
BaseNames ==
    { <<"a", ".", "p", "d", "f">>, <<"a", "_", "0", "1", ".", "p", "d", "f">>,
      <<"a">>, <<".", "a">> }

\* what the output directory holds before the batch: "2001/01/a.pdf",
\* "2001/01/a_01.pdf" and "Unknown_year/a_01.pdf", or some of them
OldFiles ==
    { Dest("2001", "01", <<"a", ".", "p", "d", "f">>),
      Dest("2001", "01", <<"a", "_", "0", "1", ".", "p", "d", "f">>),
      Dest("Unknown_year", "", <<"a", "_", "0", "1", ".", "p", "d", "f">>) }

\* most files of a batch
MaxCopies == 3

InitCopy ==
    /\ MAX_DATE = Date(2018, 11, 30)
    /\ dry \in BOOLEAN
    /\ keep \in BOOLEAN
    /\ outdir \in SUBSET OldFiles
    /\ copies = <<>>
    /\ pc = "idle"
    /\ result = None
    /\ line = None
    /\ textfile = None
    /\ scan = None
    /\ extension = ""
    /\ tags = None
    /\ title = None
    /\ trace = None
    /\ NoEngine
    /\ NoName

\* lines 901-927 of rename, in the loop of batch (lines 964-971); nothing
\* is copied when dry is set, nor when make_unique_path has not returned
RenameCopy(ym, ttl, ext, base) ==
    /\ pc = "idle"
    /\ Len(copies) < MaxCopies
    /\ \E path \in {rename_path(ym, ttl, ext, keep, base)} :
       \E u \in {make_unique_path(path, outdir)} :
           /\ copies' = Append(copies, [path |-> path, newfile |-> u.path,
                                        status |-> u.status,
                                        tested |-> u.tested,
                                        present |-> Cardinality(outdir),
                                        existed |-> u.path \in outdir])
           /\ outdir' = IF dry \/ u.status # "return" THEN outdir
                        ELSE outdir \cup {u.path}
           /\ pc' = IF u.status = "return" THEN "idle" ELSE "loop"
    /\ UNCHANGED <<inputs, dry, keep, result, scan, trace, engine>>

NextCopy ==
    \E ym \in YearMonths, ttl \in RawTitles, ext \in ExtNames,
       base \in BaseNames :
        RenameCopy(ym, ttl, ext, base)

SpecCopy == InitCopy /\ [][NextCopy]_vars

-----------------------------------------------------------------------------
(* Properties of the copies (specification SpecCopy) *)

\* the copies of the batch have pairwise distinct destinations
DistinctCopies ==
    \A i, j \in 1..Len(copies) :
        copies[i].newfile = copies[j].newfile => i = j

\* C21: in a batch that is not dry, make_unique_path returns for every file,
\* after testing at most one path more than there are paths that exist; the
\* path it chooses does not exist when the file is copied to it, so no file
\* of the output directory is overwritten; and the destinations of the
\* copies of the batch are pairwise distinct.
C21_FreshDistinctDestinations ==
    ~dry =>
        /\ pc # "loop"
        /\ \A i \in 1..Len(copies) :
             /\ copies[i].status = "return"
             /\ copies[i].tested <= copies[i].present + 1
             /\ ~copies[i].existed
        /\ DistinctCopies

\* three files of one batch ask for the same path, which exists already, as
\* does the path of the first suffix: they are copied to the paths of the
\* suffixes _02, _03 and _04
C21_Witness ==
    /\ ~dry /\ Len(copies) = 3
    /\ \A i \in 1..3 : copies[i].path = copies[1].path
    /\ copies[1].tested = 3
    /\ copies[3].tested = 5
    /\ copies[3].newfile.name = <<"a", "_", "0", "4", ".", "p", "d", "f">>

=============================================================================
